---- MODULE Spec2Model ----
(***************************************************************************)
(* Radicale CalDAV request handler (radicale/__init__.py).                 *)
(*                                                                         *)
(* A request path is modelled by the list of its "/"-separated pieces      *)
(* ("/u/c/e.ics" is <<"", "u", "c", "e.ics">>), a text by the sequence of  *)
(* its code points and a byte string by the sequence of its bytes.        *)
(* Python's None is modelled by the empty value of the same kind where the *)
(* code only tests truthiness (item names, the request content, the       *)
(* answer buffer).                                                         *)
(***************************************************************************)
EXTENDS Integers, Sequences, FiniteSets, TLC

VARIABLES
    store,      \* the calendars of the storage collaborator, by Calendar Address
    acl,        \* server.acl: TRUE when an access-control collaborator is loaded
    owner,      \* the recorded owner of each calendar ("" when it has none)
    personal,   \* the deployment's personal-calendar setting
    last,       \* the request handled last, with the response it was given
    prev,       \* the read handled just before `last`, when both are reads
                \* of the same path with the same headers
    gone,       \* item names deleted with 204 and not written since
    resolved,   \* the request path resolved last, with what it resolved to
    running     \* the handlers that run concurrently: position and locals

vars == <<store, acl, owner, personal, last, prev, gone, resolved, running>>

----------------------------------------------------------------------------
(* Bounds *)

\* Number of successful mutations of one calendar (its last-modified clock).
MaxWrites == 2

\* Number of segments of a request path given to the Path Resolver.
MaxSegments == 4

\* Number of handlers that run concurrently.
MaxHandlers == 2

----------------------------------------------------------------------------
(* Status codes of http.client used by the handlers *)

OK == 200
CREATED == 201
NO_CONTENT == 204
MULTI_STATUS == 207
UNAUTHORIZED == 401
GONE == 410
PRECONDITION_FAILED == 412

----------------------------------------------------------------------------
(* Small helpers on sequences *)

Last(s) == s[Len(s)]
Front(s) == SubSeq(s, 1, Len(s) - 1)
Min(a, b) == IF a < b THEN a ELSE b

\* dict.get(name, default) on the request headers
HeaderGet(headers, name, default) ==
    IF name \in DOMAIN headers THEN headers[name] ELSE default

\* truthiness of headers.get(name): the header is there and not the empty string
HeaderTruthy(headers, name) ==
    name \in DOMAIN headers /\ headers[name] # <<>>

----------------------------------------------------------------------------
(* Path Resolver: CalendarHTTPHandler._calendar *)

\* str.endswith('.ics') over the segment alphabet of the model
EndsWithIcs(segment) == segment \in {"e.ics", "f.ics"}

RECURSIVE lstrip(_)
lstrip(parts) ==
    IF parts # <<>> /\ Head(parts) = "" THEN lstrip(Tail(parts)) ELSE parts

RECURSIVE rstrip(_)
rstrip(parts) ==
    IF parts # <<>> /\ Last(parts) = "" THEN rstrip(Front(parts)) ELSE parts

\* str.strip("/"): drop every leading and trailing slash
strip(parts) ==
    LET inner == rstrip(lstrip(parts))
    IN  IF inner = <<>> THEN <<"">> ELSE inner

\* the loop of posixpath.normpath over the components of the path
RECURSIVE normcomps(_, _, _)
normcomps(comps, new_comps, initial_slashes) ==
    IF comps = <<>> THEN new_comps
    ELSE LET comp == Head(comps)
         IN  IF comp \in {"", "."}
             THEN normcomps(Tail(comps), new_comps, initial_slashes)
             ELSE IF \/ comp # ".."
                     \/ (initial_slashes = 0 /\ new_comps = <<>>)
                     \/ (new_comps # <<>> /\ Last(new_comps) = "..")
             THEN normcomps(Tail(comps), Append(new_comps, comp), initial_slashes)
             ELSE IF new_comps # <<>>
             THEN normcomps(Tail(comps), Front(new_comps), initial_slashes)
             ELSE normcomps(Tail(comps), new_comps, initial_slashes)

\* posixpath.normpath, on and to the "/"-split form of the path. A path
\* that starts with exactly two slashes keeps both (POSIX).
normpath(parts) ==
    LET starts(k) == Len(parts) > k /\ \A i \in 1..k : parts[i] = ""
        initial_slashes == IF starts(2) /\ ~starts(3) THEN 2
                           ELSE IF starts(1) THEN 1 ELSE 0
        new_comps == normcomps(parts, <<>>, initial_slashes)
        slashes == IF initial_slashes = 2 THEN <<"", "">>
                   ELSE IF initial_slashes = 1 THEN <<"">> ELSE <<>>
    IN  IF initial_slashes > 0
        THEN (IF new_comps = <<>> THEN slashes \o <<"">> ELSE slashes \o new_comps)
        ELSE (IF new_comps = <<>> THEN <<".">> ELSE new_comps)

\* attributes = posixpath.normpath(self.path.strip("/")).split("/")
attributes(path) == normpath(strip(path))

\* The Calendar Address of a request path: the segments that are joined into
\* the argument of ical.Calendar ("/".join is one-to-one on segment lists).
\* none is TRUE when the property returns None.
calendar(path) ==
    LET attrs == attributes(path)
    IN  IF attrs # <<>>
        THEN LET kept == IF EndsWithIcs(Last(attrs)) THEN Front(attrs) ELSE attrs
             IN  [none |-> FALSE, path |-> SubSeq(kept, 1, Min(Len(kept), 2))]
        ELSE [none |-> TRUE, path |-> <<>>]

\* xmlutils.name_from_path: the Item Identifier of the path, "" for None
name_from_path(path) ==
    LET attrs == attributes(path)
    IN  IF attrs # <<>> /\ EndsWithIcs(Last(attrs)) THEN Last(attrs) ELSE ""

----------------------------------------------------------------------------
(* Storage collaborator (radicale.ical), from its interface in the design *)

\* The item names of the model, in the order the calendar keeps them.
ItemOrder == <<"e.ics">>
ItemNames == {ItemOrder[i] : i \in DOMAIN ItemOrder}

\* Item.etag / Calendar.etag: a quoted digest that identifies the content.
Etag(text) == <<34>> \o text \o <<34>>

\* Calendar.get_item(name): is there an item of that name (None otherwise)
has_item(cal, name) == name \in DOMAIN cal.items

\* the etag of the item Calendar.get_item(name) returns
item_etag(cal, name) == Etag(cal.items[name])

\* ical.serialize(headers, items): each item's text, one per line
RECURSIVE serialize(_, _)
serialize(cal, names) ==
    IF names = <<>> THEN <<>>
    ELSE (IF Head(names) \in DOMAIN cal.items
          THEN cal.items[Head(names)] \o <<10>> ELSE <<>>)
         \o serialize(cal, Tail(names))

\* Calendar.text: the whole calendar serialized ("" for an empty calendar)
calendar_text(cal) == serialize(cal, ItemOrder)

\* Calendar.etag: the aggregate etag of the calendar
calendar_etag(cal) == Etag(calendar_text(cal))

\* xmlutils.put(path, text, calendar): write the item the path names
put(cal, name, text) ==
    IF name = "" THEN cal
    ELSE [items |-> [n \in DOMAIN cal.items \cup {name} |->
                        IF n = name THEN text ELSE cal.items[n]],
          last_modified |-> cal.last_modified + 1]

\* xmlutils.delete(path, calendar): remove the item the path names
delete(cal, name) ==
    IF name \notin DOMAIN cal.items THEN cal
    ELSE [items |-> [n \in DOMAIN cal.items \ {name} |-> cal.items[n]],
          last_modified |-> cal.last_modified + 1]

\* the confirmation payload xmlutils.delete returns, and the bodies
\* xmlutils.propfind and xmlutils.report return (opaque XML)
delete_answer == <<60, 100, 62>>
propfind_answer == <<60, 112, 62>>
report_answer == <<60, 114, 62>>

----------------------------------------------------------------------------
(* Access-control collaborator (radicale.acl), from its interface *)

\* the one account of the model: user "u" with password "p"
has_right(calendar_owner, user, password) ==
    user # <<>> /\ user = calendar_owner /\ user = <<117>> /\ password = <<112>>

----------------------------------------------------------------------------
(* Charset Resolver: CalendarHTTPHandler._decode *)

\* config.get("encoding", "request")
encoding == "utf-8"

\* bytes.decode("utf-8"), for sequences of one to three bytes
RECURSIVE utf8_decode(_)
utf8_decode(bytes) ==
    IF bytes = <<>> THEN [ok |-> TRUE, text |-> <<>>]
    ELSE LET b == Head(bytes)
             n == Len(bytes)
             cont(i) == i <= n /\ bytes[i] \in 128..191
         IN  IF b < 128
             THEN LET r == utf8_decode(Tail(bytes))
                  IN  [ok |-> r.ok, text |-> <<b>> \o r.text]
             ELSE IF b \in 194..223 /\ cont(2)
             THEN LET r == utf8_decode(SubSeq(bytes, 3, n))
                  IN  [ok |-> r.ok,
                       text |-> <<(b - 192) * 64 + (bytes[2] - 128)>> \o r.text]
             ELSE IF /\ b \in 224..239 /\ cont(2) /\ cont(3)
                     /\ (b = 224 => bytes[2] >= 160)
                     /\ (b = 237 => bytes[2] <= 159)
             THEN LET r == utf8_decode(SubSeq(bytes, 4, n))
                  IN  [ok |-> r.ok,
                       text |-> <<(b - 224) * 4096 + (bytes[2] - 128) * 64
                                  + (bytes[3] - 128)>> \o r.text]
             ELSE [ok |-> FALSE, text |-> <<>>]

\* str.encode("utf-8"), for code points below 65536
RECURSIVE utf8_encode(_)
utf8_encode(text) ==
    IF text = <<>> THEN <<>>
    ELSE LET c == Head(text)
         IN  (IF c < 128 THEN <<c>>
              ELSE IF c < 2048 THEN <<192 + (c \div 64), 128 + (c % 64)>>
              ELSE <<224 + (c \div 4096), 128 + ((c \div 64) % 64), 128 + (c % 64)>>)
             \o utf8_encode(Tail(text))

\* bytes.decode(charset): "ok" with the text, "UnicodeDecodeError", or
\* "LookupError" for a name that is no charset
bytes_decode(bytes, charset) ==
    IF charset = "utf-8"
    THEN LET r == utf8_decode(bytes)
         IN  IF r.ok THEN [result |-> "ok", text |-> r.text]
             ELSE [result |-> "UnicodeDecodeError", text |-> <<>>]
    ELSE IF charset = "iso8859-1"
    THEN [result |-> "ok", text |-> bytes]
    ELSE [result |-> "LookupError", text |-> <<>>]

\* the list of charsets to try. The Content-Type header is modelled by the
\* text that follows "charset=" in it ("" when it declares no charset).
charsets(headers) ==
    LET content_type == HeaderGet(headers, "Content-Type", "")
    IN  (IF content_type # "" THEN <<content_type>> ELSE <<>>)
        \o <<encoding, "utf-8", "iso8859-1">>

\* the decoding loop: the first charset that decodes; an error other than
\* UnicodeDecodeError leaves the loop
RECURSIVE try_decode(_, _)
try_decode(bytes, candidates) ==
    IF candidates = <<>> THEN [fault |-> "TypeError", text |-> <<>>]
    ELSE LET r == bytes_decode(bytes, Head(candidates))
         IN  IF r.result = "ok" THEN [fault |-> "", text |-> r.text]
             ELSE IF r.result = "UnicodeDecodeError"
             THEN try_decode(bytes, Tail(candidates))
             ELSE [fault |-> r.result, text |-> <<>>]

\* _decode(text); text is None (no request content) when is_none
decode(headers, bytes, is_none) ==
    IF is_none THEN [fault |-> "AttributeError", text |-> <<>>]
    ELSE try_decode(bytes, charsets(headers))

\* str.split(sep)
RECURSIVE split(_, _)
split(text, sep) ==
    IF \A i \in 1..Len(text) : text[i] # sep THEN <<text>>
    ELSE LET i == CHOOSE k \in 1..Len(text) :
                      text[k] = sep /\ \A j \in 1..(k - 1) : text[j] # sep
         IN  <<SubSeq(text, 1, i - 1)>> \o split(SubSeq(text, i + 1, Len(text)), sep)

----------------------------------------------------------------------------
(* The request handler object and the response it builds *)

ResponseHeaders ==
    {"Allow", "Content-Length", "Content-Type", "DAV", "ETag", "Last-Modified",
     "WWW-Authenticate"}

\* CalendarHTTPHandler.__init__: _content and _answer are None, nothing is sent
new_handler(command, path, headers, rfile, calendars) ==
    [command |-> command, path |-> path, headers |-> headers, rfile |-> rfile,
     store |-> calendars,
     content |-> <<>>, content_none |-> TRUE, answer |-> <<>>,
     status |-> <<>>, sent |-> {},
     out |-> [n \in ResponseHeaders |->
                 IF n \in {"Content-Length", "Last-Modified"} THEN 0
                 ELSE IF n = "ETag" THEN <<>> ELSE ""],
     ended |-> FALSE, wfile |-> <<>>, fault |-> "", ran |-> {}]

send_response(h, code) == [h EXCEPT !.status = Append(@, code)]
send_header(h, name, value) ==
    [h EXCEPT !.sent = @ \cup {name}, !.out[name] = value]
end_headers(h) == [h EXCEPT !.ended = TRUE]
wfile_write(h, bytes) == [h EXCEPT !.wfile = @ \o bytes]

\* an exception leaves the handler: nothing more of it runs
raise(h, error) == [h EXCEPT !.fault = error]

\* the ical.Calendar the request path resolves to, in the handler's view of
\* the storage
the_calendar(h) == h.store[calendar(h.path).path]

----------------------------------------------------------------------------
(* Verb Handlers: the bodies of the do_* methods *)

\* the 200 answer of do_HEAD, lines 255-261
head_ok(h, answer_text, etag) ==
    LET h1 == [h EXCEPT !.answer = utf8_encode(answer_text)]
        h2 == send_response(h1, OK)
        h3 == send_header(h2, "Content-Length", Len(h1.answer))
        h4 == send_header(h3, "Content-Type", "text/calendar")
        h5 == send_header(h4, "Last-Modified", the_calendar(h).last_modified)
        h6 == send_header(h5, "ETag", etag)
    IN  end_headers(h6)

\* HEAD with the lookup of lines 239-249 lost: an item the calendar does not
\* have is answered like the whole calendar
HEAD_missing_as_calendar(h) ==
    LET item_name == name_from_path(h.path)
        cal == the_calendar(h)
    IN  IF item_name # "" /\ has_item(cal, item_name)
        THEN head_ok(h, cal.items[item_name] \o <<10>>, item_etag(cal, item_name))
        ELSE head_ok(h, calendar_text(cal), calendar_etag(cal))

\* HEAD sending the etag of the calendar for an item (line 245 lost)
HEAD_calendar_etag(h) ==
    LET item_name == name_from_path(h.path)
        cal == the_calendar(h)
    IN  IF item_name # ""
        THEN IF has_item(cal, item_name)
             THEN head_ok(h, cal.items[item_name] \o <<10>>, calendar_etag(cal))
             ELSE send_response([h EXCEPT !.answer = <<>>], GONE)
        ELSE head_ok(h, calendar_text(cal), calendar_etag(cal))

HEAD(h) ==
    LET item_name == name_from_path(h.path)
        cal == the_calendar(h)
    IN  IF item_name # ""
        THEN IF has_item(cal, item_name)
             THEN head_ok(h, cal.items[item_name] \o <<10>>,
                          item_etag(cal, item_name))
             ELSE send_response([h EXCEPT !.answer = <<>>], GONE)
        ELSE head_ok(h, calendar_text(cal), calendar_etag(cal))

\* DELETE without the If-Match test of line 269
DELETE_without_precondition(h) ==
    LET item_name == name_from_path(h.path)
        address == calendar(h.path).path
        cal == the_calendar(h)
    IN  IF has_item(cal, item_name)
        THEN LET h1 == [h EXCEPT !.store[address] = delete(cal, item_name),
                                 !.answer = delete_answer]
                 h2 == send_response(h1, NO_CONTENT)
                 h3 == send_header(h2, "Content-Length", Len(h1.answer))
             IN  wfile_write(end_headers(h3), h1.answer)
        ELSE send_response(h, PRECONDITION_FAILED)

\* DELETE removing the item before it tests the precondition of line 269
DELETE_before_precondition(h) ==
    LET item_name == name_from_path(h.path)
        address == calendar(h.path).path
        cal == the_calendar(h)
        h1 == [h EXCEPT !.store[address] = delete(cal, item_name)]
    IN  IF /\ has_item(cal, item_name)
           /\ HeaderGet(h.headers, "If-Match", item_etag(cal, item_name))
                  = item_etag(cal, item_name)
        THEN LET h2 == send_response([h1 EXCEPT !.answer = delete_answer], NO_CONTENT)
                 h3 == send_header(h2, "Content-Length", Len(delete_answer))
             IN  wfile_write(end_headers(h3), delete_answer)
        ELSE send_response(h1, PRECONDITION_FAILED)

DELETE(h) ==
    LET item_name == name_from_path(h.path)
        address == calendar(h.path).path
        cal == the_calendar(h)
    IN  IF /\ has_item(cal, item_name)
           /\ HeaderGet(h.headers, "If-Match", item_etag(cal, item_name))
                  = item_etag(cal, item_name)
        THEN LET h1 == [h EXCEPT !.store[address] = delete(cal, item_name),
                                 !.answer = delete_answer]
                 h2 == send_response(h1, NO_CONTENT)
                 h3 == send_header(h2, "Content-Length", Len(h1.answer))
             IN  wfile_write(end_headers(h3), h1.answer)
        ELSE send_response(h, PRECONDITION_FAILED)

MKCALENDAR(h) == end_headers(send_response(h, CREATED))

\* the condition of lines 318-319
put_allowed(h) ==
    LET item_name == name_from_path(h.path)
        cal == the_calendar(h)
    IN  \/ (~has_item(cal, item_name) /\ ~HeaderTruthy(h.headers, "If-Match"))
        \/ /\ has_item(cal, item_name)
           /\ HeaderGet(h.headers, "If-Match", item_etag(cal, item_name))
                  = item_etag(cal, item_name)

\* lines 326-330: the etag of the item looked up again, then the answer
put_answer(h) ==
    LET item_name == name_from_path(h.path)
        cal == the_calendar(h)
    IN  IF ~has_item(cal, item_name) THEN raise(h, "AttributeError")
        ELSE end_headers(send_header(send_response(h, CREATED),
                                     "ETag", item_etag(cal, item_name)))

\* PUT sending the etag it read at line 317, before the write
PUT_stale_etag(h) ==
    LET item_name == name_from_path(h.path)
        address == calendar(h.path).path
        cal == the_calendar(h)
    IN  IF put_allowed(h)
        THEN LET ical_request == decode(h.headers, h.content, h.content_none)
                 h1 == [h EXCEPT !.store[address] =
                            put(cal, item_name, ical_request.text)]
             IN  IF ical_request.fault # "" THEN raise(h, ical_request.fault)
                 ELSE IF has_item(cal, item_name)
                 THEN end_headers(send_header(send_response(h1, CREATED),
                                              "ETag", item_etag(cal, item_name)))
                 ELSE put_answer(h1)
        ELSE send_response(h, PRECONDITION_FAILED)

PUT(h) ==
    LET item_name == name_from_path(h.path)
        address == calendar(h.path).path
        cal == the_calendar(h)
    IN  IF put_allowed(h)
        THEN LET ical_request == decode(h.headers, h.content, h.content_none)
             IN  IF ical_request.fault # "" THEN raise(h, ical_request.fault)
                 ELSE put_answer([h EXCEPT !.store[address] =
                                      put(cal, item_name, ical_request.text)])
        ELSE send_response(h, PRECONDITION_FAILED)

REPORT(h) ==
    LET h1 == [h EXCEPT !.answer = report_answer]
        h2 == send_response(h1, MULTI_STATUS)
        h3 == send_header(h2, "Content-Length", Len(h1.answer))
    IN  wfile_write(end_headers(h3), h1.answer)

OPTIONS(h) ==
    LET h1 == send_response(h, OK)
        h2 == send_header(h1, "Allow",
                  "DELETE, HEAD, GET, MKCALENDAR, OPTIONS, PROPFIND, PUT, REPORT")
        h3 == send_header(h2, "DAV", "1, calendar-access")
    IN  end_headers(h3)

PROPFIND(h) ==
    LET h1 == [h EXCEPT !.answer = propfind_answer]
        h2 == send_response(h1, MULTI_STATUS)
        h3 == send_header(h2, "DAV", "1, calendar-access")
        h4 == send_header(h3, "Content-Length", Len(h1.answer))
        h5 == send_header(h4, "Content-Type", "text/xml")
    IN  wfile_write(end_headers(h5), h1.answer)

----------------------------------------------------------------------------
(* Authorization Gate and content logging: the decorators *)

\* function(request): the gate hands the request to the handler it wraps
invoke(h, function) == [run |-> TRUE, h |-> [h EXCEPT !.ran = @ \cup {function}]]

\* the gate returns without calling the handler (an answer sent, or an
\* exception raised)
stop(h) == [run |-> FALSE, h |-> h]

\* line 60: no calendar or no acl, the rights are not checked
no_rights_check(path) == calendar(path).none \/ ~acl

\* the gate calling the handler whatever has_right answers
decide_always_invokes(h, function, user, password) == invoke(h, function)

\* lines 77-86: the decision of the access-control collaborator
decide(h, function, user, password) ==
    IF has_right(owner[calendar(h.path).path], user, password)
    THEN invoke(h, function)
    ELSE stop(end_headers(send_header(send_response(h, UNAUTHORIZED),
             "WWW-Authenticate",
             "Basic realm=\"Radicale Server - Password Required\"")))

\* the user and the password of lines 72-73, from the decoded challenge
credentials(h, function, challenge) ==
    IF challenge.fault # "" THEN stop(raise(h, challenge.fault))
    ELSE IF Len(split(challenge.text, 58)) # 2 THEN stop(raise(h, "ValueError"))
    ELSE decide(h, function, split(challenge.text, 58)[1],
                split(challenge.text, 58)[2])

\* _check(request, function), up to the call of function: run says whether
\* the gate calls it. The Authorization header is modelled by the bytes its
\* challenge decodes to (base64 is not modelled). The name PERSONAL of line
\* 63 is defined nowhere in the module: evaluating it raises NameError.
check(h, function) ==
    IF no_rights_check(h.path) THEN invoke(h, function)
    ELSE IF owner[calendar(h.path).path] = <<>> THEN stop(raise(h, "NameError"))
    ELSE IF HeaderGet(h.headers, "Authorization", <<>>) # <<>>
    THEN credentials(h, function,
                     decode(h.headers, h.headers["Authorization"], FALSE))
    ELSE decide(h, function, <<>>, <<>>)

\* _log_request_content up to its call of function: the request content is
\* read when Content-Length is not 0 (rfile holds Content-Length bytes)
log_request_content(h) ==
    IF Len(h.rfile) # 0
    THEN [h EXCEPT !.content = h.rfile, !.content_none = FALSE]
    ELSE [h EXCEPT !.content = <<>>, !.content_none = TRUE]

----------------------------------------------------------------------------
(* The decorated methods: @log_request_content, @check_rights, the body *)

checked_HEAD(gate) == IF gate.run THEN HEAD(gate.h) ELSE gate.h
do_HEAD(h) == checked_HEAD(check(log_request_content(h), "do_HEAD"))

\* lines 229-230: the answer do_HEAD left is written
write_answer(h) ==
    IF h.fault = "" /\ h.answer # <<>> THEN wfile_write(h, h.answer) ELSE h

\* do_GET calling the body of do_HEAD without its decorators
do_GET_unchecked(h) ==
    write_answer(HEAD([log_request_content(h) EXCEPT
                          !.ran = @ \cup {"do_GET", "do_HEAD"}]))

do_GET(h) ==
    write_answer(do_HEAD([log_request_content(h) EXCEPT !.ran = @ \cup {"do_GET"}]))

checked_DELETE(gate) == IF gate.run THEN DELETE(gate.h) ELSE gate.h
do_DELETE(h) == checked_DELETE(check(log_request_content(h), "do_DELETE"))

checked_MKCALENDAR(gate) == IF gate.run THEN MKCALENDAR(gate.h) ELSE gate.h
do_MKCALENDAR(h) ==
    checked_MKCALENDAR(check(log_request_content(h), "do_MKCALENDAR"))

checked_PUT(gate) == IF gate.run THEN PUT(gate.h) ELSE gate.h
do_PUT(h) == checked_PUT(check(log_request_content(h), "do_PUT"))

checked_REPORT(gate) == IF gate.run THEN REPORT(gate.h) ELSE gate.h
do_REPORT(h) == checked_REPORT(check(log_request_content(h), "do_REPORT"))

do_OPTIONS(h) ==
    OPTIONS([log_request_content(h) EXCEPT !.ran = @ \cup {"do_OPTIONS"}])

\* do_PROPFIND behind the gate, like do_REPORT
do_PROPFIND_checked(h) ==
    LET gate == check(log_request_content(h), "do_PROPFIND")
    IN  IF gate.run THEN PROPFIND(gate.h) ELSE gate.h

do_PROPFIND(h) ==
    PROPFIND([log_request_content(h) EXCEPT !.ran = @ \cup {"do_PROPFIND"}])

----------------------------------------------------------------------------
(* The requests of the model *)

\* "/u/c" (the whole calendar) and "/u/c/e.ics" (one item of it)
RequestPaths == {<<"", "u", "c">>, <<"", "u", "c", "e.ics">>}

Addresses == {calendar(p).path : p \in RequestPaths}

\* the texts "A" and "e acute" of the items the storage starts with
Texts == {<<65>>, <<233>>}

\* no Authorization header; "u:p" (the account); "u:x"; "u" (no colon)
AuthorizationOptions == {{}, {<<117, 58, 112>>}, {<<117, 58, 120>>}, {<<117>>}}

\* no If-Match header; the empty string; the etag of the text "A"
IfMatchOptions == {{}, {<<>>}, {Etag(<<65>>)}}

\* The bodies of the PUT requests, with the charset their Content-Type
\* declares: no body; "A"; 0xE9, "e acute" in iso8859-1 only; "A" declared in
\* a charset that does not exist
Bodies ==
    {[content_type |-> {}, bytes |-> <<>>],
     [content_type |-> {}, bytes |-> <<65>>],
     [content_type |-> {}, bytes |-> <<233>>],
     [content_type |-> {"bogus"}, bytes |-> <<65>>]}

\* the headers of a request: every request has a Host header
request_headers(authorization, if_match, content_type) ==
    [n \in {"Host"}
           \cup (IF authorization = {} THEN {} ELSE {"Authorization"})
           \cup (IF if_match = {} THEN {} ELSE {"If-Match"})
           \cup (IF content_type = {} THEN {} ELSE {"Content-Type"}) |->
        IF n = "Authorization" THEN CHOOSE v \in authorization : TRUE
        ELSE IF n = "If-Match" THEN CHOOSE v \in if_match : TRUE
        ELSE IF n = "Content-Type" THEN CHOOSE v \in content_type : TRUE
        ELSE "radicale"]

Reads == {"GET", "HEAD"}

EmptyStore == [a \in Addresses |-> [items |-> <<>>, last_modified |-> 0]]

\* a request path that the handler has not resolved yet
Unresolved(path) ==
    [path |-> path, done |-> FALSE, calendar |-> [none |-> TRUE, path |-> <<>>],
     name |-> "", unchecked |-> FALSE,
     with_item |-> [none |-> TRUE, path |-> <<>>]]

\* no request handled yet
NoRequest ==
    [h |-> new_handler("", <<"">>, request_headers({}, {}, {}), <<>>, EmptyStore),
     before |-> EmptyStore]

----------------------------------------------------------------------------
(* The frames of the handlers that run concurrently *)

\* the handlers (connections), numbered in the order they are accepted
Handlers == 1..MaxHandlers

\* the text "A" of the item the storage may start with; the bodies "B" and
\* "C" of the PUT requests
RaceText == <<65>>
RaceBodies == {<<66>>, <<67>>}

\* no If-Match header, or the etag of the text "A"
RaceIfMatch == {{}, {Etag(RaceText)}}

CalendarPath == <<"", "u", "c">>
ItemPath == <<"", "u", "c", "e.ics">>

\* the local variable item of do_PUT, do_DELETE and do_HEAD: the result of
\* Calendar.get_item (found is FALSE for None)
NoItem == [found |-> FALSE, text |-> <<>>, etag |-> <<>>]
get_item(cal, name) ==
    IF has_item(cal, name)
    THEN [found |-> TRUE, text |-> cal.items[name], etag |-> item_etag(cal, name)]
    ELSE NoItem

\* the frame of a handler with no request yet. looked, wrote and stored
\* record, for the properties, the last-modified clock of the calendar when
\* the handler read it first, the clock after the handler's write, and the
\* text of the item in the storage right after that write.
IdleFrame ==
    [pc |-> "idle", h |-> NoRequest.h, item |-> NoItem, text |-> <<>>,
     etag |-> <<>>, looked |-> 0, wrote |-> 0, stored |-> <<>>]

----------------------------------------------------------------------------
(* One request, from its arrival to the end of its handler *)

\* h is the handler object when the method has returned or raised
Respond(h) ==
    /\ \A a \in Addresses : h.store[a].last_modified <= MaxWrites
    /\ store' = h.store
    /\ last' = [h |-> h, before |-> store]
    /\ prev' = IF /\ h.command \in Reads /\ last.h.command \in Reads
                  /\ h.path = last.h.path /\ h.headers = last.h.headers
               THEN last ELSE NoRequest
    /\ gone' = IF h.command = "DELETE" /\ h.status = <<NO_CONTENT>>
               THEN gone \cup {name_from_path(h.path)}
               ELSE IF h.command = "PUT" /\ h.status = <<CREATED>>
               THEN gone \ {name_from_path(h.path)}
               ELSE gone
    /\ UNCHANGED <<acl, owner, personal, resolved, running>>

GetRequest ==
    \E path \in RequestPaths, authorization \in AuthorizationOptions :
        (\E h \in {do_GET(new_handler("GET", path,
            request_headers(authorization, {}, {}), <<>>, store))} : Respond(h))

HeadRequest ==
    \E path \in RequestPaths, authorization \in AuthorizationOptions :
        (\E h \in {do_HEAD(new_handler("HEAD", path,
            request_headers(authorization, {}, {}), <<>>, store))} : Respond(h))

DeleteRequest ==
    \E path \in RequestPaths, authorization \in AuthorizationOptions,
       if_match \in IfMatchOptions :
        (\E h \in {do_DELETE(new_handler("DELETE", path,
            request_headers(authorization, if_match, {}), <<>>, store))} : Respond(h))

PutRequest ==
    \E path \in RequestPaths, authorization \in AuthorizationOptions,
       if_match \in IfMatchOptions, body \in Bodies :
        (\E h \in {do_PUT(new_handler("PUT", path,
            request_headers(authorization, if_match, body.content_type),
            body.bytes, store))} : Respond(h))

MkcalendarRequest ==
    \E path \in RequestPaths, authorization \in AuthorizationOptions :
        (\E h \in {do_MKCALENDAR(new_handler("MKCALENDAR", path,
            request_headers(authorization, {}, {}), <<>>, store))} : Respond(h))

OptionsRequest ==
    \E path \in RequestPaths, authorization \in AuthorizationOptions :
        (\E h \in {do_OPTIONS(new_handler("OPTIONS", path,
            request_headers(authorization, {}, {}), <<>>, store))} : Respond(h))

PropfindRequest ==
    \E path \in RequestPaths, authorization \in AuthorizationOptions :
        (\E h \in {do_PROPFIND(new_handler("PROPFIND", path,
            request_headers(authorization, {}, {}), <<60>>, store))} : Respond(h))

ReportRequest ==
    \E path \in RequestPaths, authorization \in AuthorizationOptions :
        (\E h \in {do_REPORT(new_handler("REPORT", path,
            request_headers(authorization, {}, {}), <<60>>, store))} : Respond(h))

\* the storage holds any items when the server starts
Init ==
    /\ store \in [Addresses ->
                    {[items |-> items, last_modified |-> 0] :
                        items \in UNION {[names -> Texts] : names \in SUBSET ItemNames}}]
    /\ acl \in BOOLEAN
    /\ owner \in [Addresses -> {<<>>, <<117>>}]
    /\ personal = TRUE
    /\ last = NoRequest
    /\ prev = NoRequest
    /\ gone = {}
    /\ resolved = Unresolved(<<"">>)
    /\ running = [p \in Handlers |-> IdleFrame]

Next ==
    \/ GetRequest
    \/ HeadRequest
    \/ DeleteRequest
    \/ PutRequest
    \/ MkcalendarRequest
    \/ OptionsRequest
    \/ PropfindRequest
    \/ ReportRequest

Spec == Init /\ [][Next]_vars

----------------------------------------------------------------------------
(* The Path Resolver alone, on request paths with traversal segments *)

\* the pieces of a request path: an empty piece is a repeated slash
Segments == {"", ".", "..", "a", "b", "e.ics"}

RECURSIVE SegmentLists(_)
SegmentLists(n) ==
    IF n = 0 THEN {<<>>}
    ELSE LET shorter == SegmentLists(n - 1)
         IN  shorter \cup {Append(l, x) : l \in {m \in shorter : Len(m) = n - 1},
                                          x \in Segments}

\* the item name appended to a request path
ItemSegment == "e.ics"

\* "" and "/" followed by up to MaxSegments pieces
RawPaths == {<<"">> \o l : l \in SegmentLists(MaxSegments)}

\* the handler resolves the path of the request it was created for, the gate
\* decides whether rights are checked for it, and the path of an item under
\* it is resolved as well
ResolvePath ==
    /\ ~resolved.done
    /\ resolved' = [path |-> resolved.path, done |-> TRUE,
                    calendar |-> calendar(resolved.path),
                    name |-> name_from_path(resolved.path),
                    unchecked |-> no_rights_check(resolved.path),
                    with_item |-> calendar(resolved.path \o <<ItemSegment>>)]
    /\ UNCHANGED <<store, acl, owner, personal, last, prev, gone, running>>

InitPath ==
    /\ store = EmptyStore
    /\ acl \in BOOLEAN
    /\ owner = [a \in Addresses |-> <<>>]
    /\ personal = TRUE
    /\ last = NoRequest
    /\ prev = NoRequest
    /\ gone = {}
    /\ resolved \in {Unresolved(path) : path \in RawPaths}
    /\ running = [p \in Handlers |-> IdleFrame]

NextPath == ResolvePath

SpecPath == InitPath /\ [][NextPath]_vars

----------------------------------------------------------------------------
(* Handlers running concurrently: one step per call of a handler into the  *)
(* storage collaborator, the steps of different handlers interleaved. Each  *)
(* handler serves one request. What a handler does between two calls       *)
(* touches only its own object and belongs to the step of the call before. *)

\* self._calendar: the handler's view of the storage at the time of a call
with_store(h, calendars) == [h EXCEPT !.store = calendars]

\* the handler has returned or raised
finish(frame, h) == [frame EXCEPT !.pc = "done", !.h = with_store(h, EmptyStore)]

\* line 325 writing only if the item is still the one line 317 looked up
put_step_if_unchanged(frame, calendars) ==
    LET address == calendar(frame.h.path).path
        name == name_from_path(frame.h.path)
    IN  IF get_item(calendars[address], name).etag = frame.item.etag
        THEN [calendars EXCEPT ![address] = put(@, name, frame.text)]
        ELSE calendars

\* line 325: xmlutils.put(self.path, ical_request, self._calendar)
put_step(frame, calendars) ==
    [calendars EXCEPT ![calendar(frame.h.path).path] =
        put(@, name_from_path(frame.h.path), frame.text)]

\* a connection is accepted: the decorators run up to the handler body
Accept(p) ==
    /\ running[p].pc = "idle"
    /\ IF p = 1 THEN TRUE ELSE running[p - 1].pc # "idle"
    /\ \E command \in {"GET", "HEAD", "PUT", "DELETE"}, path \in {CalendarPath, ItemPath},
          if_match \in RaceIfMatch, body \in RaceBodies :
        /\ command \in Reads => (if_match = {} /\ body = <<66>>)
        /\ command = "DELETE" => (path = ItemPath /\ body = <<66>>)
        /\ command = "PUT" => path = ItemPath
        /\ LET rfile == IF command = "PUT" THEN body ELSE <<>>
               h == new_handler(command, path, request_headers({}, if_match, {}),
                                rfile, EmptyStore)
               gate == check(log_request_content(h),
                             IF command \in Reads THEN "do_HEAD" ELSE "do_" \o command)
           IN  running' = [running EXCEPT ![p] =
                   [IdleFrame EXCEPT !.h = gate.h,
                        !.pc = IF ~gate.run THEN "done"
                               ELSE IF command = "PUT" THEN "317"
                               ELSE IF command = "DELETE" THEN "267"
                               ELSE IF name_from_path(path) # "" THEN "239"
                               ELSE "252"]]
    /\ UNCHANGED <<store, acl, owner, personal, last, prev, gone, resolved>>

\* do_PUT, lines 317-324: the item is looked up, the precondition tested on
\* it and the body decoded
PutLookup(p) ==
    /\ running[p].pc = "317"
    /\ LET frame == running[p]
           h == with_store(frame.h, store)
           item == get_item(the_calendar(h), name_from_path(h.path))
           ical_request == decode(h.headers, h.content, h.content_none)
       IN  running' = [running EXCEPT ![p] =
               IF ~put_allowed(h) THEN finish(frame, send_response(h, PRECONDITION_FAILED))
               ELSE IF ical_request.fault # "" THEN finish(frame, raise(h, ical_request.fault))
               ELSE [frame EXCEPT !.pc = "325", !.item = item,
                                  !.text = ical_request.text,
                                  !.looked = the_calendar(h).last_modified]]
    /\ UNCHANGED <<store, acl, owner, personal, last, prev, gone, resolved>>

\* do_PUT, line 325
PutWrite(p) ==
    /\ running[p].pc = "325"
    /\ LET frame == running[p]
           address == calendar(frame.h.path).path
           name == name_from_path(frame.h.path)
           calendars == put_step(frame, store)
       IN  /\ store' = calendars
           /\ running' = [running EXCEPT ![p] =
                  [frame EXCEPT !.pc = "326",
                                !.wrote = calendars[address].last_modified,
                                !.stored = get_item(calendars[address], name).text]]
    /\ UNCHANGED <<acl, owner, personal, last, prev, gone, resolved>>

\* do_PUT, lines 326-330: the item is looked up again for its etag
PutEtag(p) ==
    /\ running[p].pc = "326"
    /\ running' = [running EXCEPT ![p] =
           finish(running[p], put_answer(with_store(running[p].h, store)))]
    /\ UNCHANGED <<store, acl, owner, personal, last, prev, gone, resolved>>

\* do_DELETE, lines 267-269 (and 279 when the precondition fails)
DeleteLookup(p) ==
    /\ running[p].pc = "267"
    /\ LET frame == running[p]
           h == with_store(frame.h, store)
           item == get_item(the_calendar(h), name_from_path(h.path))
       IN  running' = [running EXCEPT ![p] =
               IF item.found /\ HeaderGet(h.headers, "If-Match", item.etag) = item.etag
               THEN [frame EXCEPT !.pc = "271", !.item = item,
                                  !.looked = the_calendar(h).last_modified]
               ELSE finish(frame, send_response(h, PRECONDITION_FAILED))]
    /\ UNCHANGED <<store, acl, owner, personal, last, prev, gone, resolved>>

\* do_DELETE, lines 271-276
DeleteRemove(p) ==
    /\ running[p].pc = "271"
    /\ LET frame == running[p]
           address == calendar(frame.h.path).path
           h1 == [frame.h EXCEPT !.answer = delete_answer]
           h2 == send_response(h1, NO_CONTENT)
           h3 == send_header(h2, "Content-Length", Len(h1.answer))
       IN  /\ store' = [store EXCEPT ![address] = delete(@, name_from_path(frame.h.path))]
           /\ running' = [running EXCEPT ![p] =
                  [finish(frame, wfile_write(end_headers(h3), h1.answer))
                      EXCEPT !.wrote = store'[address].last_modified]]
    /\ UNCHANGED <<acl, owner, personal, last, prev, gone, resolved>>

\* do_HEAD, lines 239-249: the item is looked up; its text and its etag are
\* those of the object get_item returned
ReadItem(p) ==
    /\ running[p].pc = "239"
    /\ LET frame == running[p]
           h == with_store(frame.h, store)
           item == get_item(the_calendar(h), name_from_path(h.path))
       IN  running' = [running EXCEPT ![p] =
               IF item.found
               THEN [frame EXCEPT !.pc = "259", !.item = item,
                                  !.text = item.text \o <<10>>, !.etag = item.etag,
                                  !.looked = the_calendar(h).last_modified]
               ELSE finish(frame, send_response([h EXCEPT !.answer = <<>>], GONE))]
    /\ UNCHANGED <<store, acl, owner, personal, last, prev, gone, resolved>>

\* do_HEAD, line 252: answer_text = self._calendar.text
ReadText(p) ==
    /\ running[p].pc = "252"
    /\ running' = [running EXCEPT ![p] =
           [running[p] EXCEPT
               !.pc = "253",
               !.text = calendar_text(the_calendar(with_store(running[p].h, store))),
               !.looked = the_calendar(with_store(running[p].h, store)).last_modified]]
    /\ UNCHANGED <<store, acl, owner, personal, last, prev, gone, resolved>>

\* do_HEAD, line 253: etag = self._calendar.etag
ReadEtag(p) ==
    /\ running[p].pc = "253"
    /\ running' = [running EXCEPT ![p] =
           [running[p] EXCEPT
               !.pc = "259",
               !.etag = calendar_etag(the_calendar(with_store(running[p].h, store)))]]
    /\ UNCHANGED <<store, acl, owner, personal, last, prev, gone, resolved>>

\* do_HEAD, lines 255-261, self._calendar.last_modified being read at line
\* 259; do_GET then writes the answer (lines 229-230)
ReadLastModified(p) ==
    /\ running[p].pc = "259"
    /\ LET frame == running[p]
           h == head_ok(with_store(frame.h, store), frame.text, frame.etag)
       IN  running' = [running EXCEPT ![p] =
               finish(frame, IF h.command = "GET" THEN write_answer(h) ELSE h)]
    /\ UNCHANGED <<store, acl, owner, personal, last, prev, gone, resolved>>

\* the storage holds the item "A" or no item; no access control
InitRace ==
    /\ store \in [Addresses ->
                    {[items |-> items, last_modified |-> 0] :
                        items \in {<<>>, [n \in ItemNames |-> RaceText]}}]
    /\ acl = FALSE
    /\ owner = [a \in Addresses |-> <<>>]
    /\ personal = TRUE
    /\ last = NoRequest
    /\ prev = NoRequest
    /\ gone = {}
    /\ resolved = Unresolved(<<"">>)
    /\ running = [p \in Handlers |-> IdleFrame]

NextRace ==
    \E p \in Handlers :
        \/ Accept(p)
        \/ PutLookup(p)
        \/ PutWrite(p)
        \/ PutEtag(p)
        \/ DeleteLookup(p)
        \/ DeleteRemove(p)
        \/ ReadItem(p)
        \/ ReadText(p)
        \/ ReadEtag(p)
        \/ ReadLastModified(p)

SpecRace == InitRace /\ [][NextRace]_vars

----------------------------------------------------------------------------
(* Properties. They are stated on `last`: the request handled last, the     *)
(* storage before it (last.before) and the handler object at its end        *)
(* (last.h: what was sent, and the storage after it).                       *)

TargetAddress == calendar(last.h.path).path
TargetName == name_from_path(last.h.path)
CalendarBefore == last.before[TargetAddress]
CalendarAfter == last.h.store[TargetAddress]
IfMatchAbsent == "If-Match" \notin DOMAIN last.h.headers

\* the gate invoked the wrapped handler (the request passed the gate)
Invoked(function) == function \in last.h.ran

\* the handler a verb ends in: do_GET runs do_HEAD behind the gate
HandlerOf(command) == IF command = "GET" THEN "do_HEAD" ELSE "do_" \o command

GatedVerbs == {"GET", "HEAD", "PUT", "DELETE", "MKCALENDAR", "REPORT"}

NoCredentials == "Authorization" \notin DOMAIN last.h.headers

\* the request carries a user and a password that has_right refuses
RejectedCredentials ==
    /\ "Authorization" \in DOMAIN last.h.headers
    /\ LET challenge == decode(last.h.headers, last.h.headers["Authorization"], FALSE)
           fields == split(challenge.text, 58)
       IN  /\ challenge.fault = ""
           /\ Len(fields) = 2
           /\ ~has_right(owner[TargetAddress], fields[1], fields[2])

\* C1: a PUT that passed the gate, on an item that exists with etag E, is
\* answered 201 with the item replaced by the decoded body when If-Match is
\* absent or equal to E, and 412 with the storage unchanged otherwise.
C1_PutOnExistingItem ==
    (last.h.command = "PUT" /\ Invoked("do_PUT") /\ has_item(CalendarBefore, TargetName))
    => IF IfMatchAbsent
          \/ last.h.headers["If-Match"] = item_etag(CalendarBefore, TargetName)
       THEN /\ last.h.status = <<CREATED>>
            /\ has_item(CalendarAfter, TargetName)
            /\ CalendarAfter.items[TargetName]
                   = try_decode(last.h.rfile, charsets(last.h.headers)).text
       ELSE /\ last.h.status = <<PRECONDITION_FAILED>>
            /\ last.h.store = last.before

\* C2: a PUT that passed the gate, on an item that does not exist, creates the
\* item and is answered 201 when there is no If-Match header, and is answered
\* 412 with nothing created when there is one, whatever its value.
C2_PutOnMissingItem ==
    (/\ last.h.command = "PUT" /\ Invoked("do_PUT")
     /\ TargetName # "" /\ ~has_item(CalendarBefore, TargetName))
    => IF IfMatchAbsent
       THEN /\ last.h.status = <<CREATED>>
            /\ has_item(CalendarAfter, TargetName)
       ELSE /\ last.h.status = <<PRECONDITION_FAILED>>
            /\ last.h.store = last.before

\* C3: a DELETE that passed the gate is answered 204 with the item removed
\* exactly when the item exists and If-Match is absent or equal to its etag;
\* otherwise (no such item, or a path that names no item, or another
\* If-Match) it is answered 412 and the storage is unchanged.
C3_Delete ==
    (last.h.command = "DELETE" /\ Invoked("do_DELETE"))
    => IF /\ has_item(CalendarBefore, TargetName)
          /\ \/ IfMatchAbsent
             \/ last.h.headers["If-Match"] = item_etag(CalendarBefore, TargetName)
       THEN /\ last.h.status = <<NO_CONTENT>>
            /\ last.h.fault = ""
            /\ ~has_item(CalendarAfter, TargetName)
       ELSE /\ last.h.status = <<PRECONDITION_FAILED>>
            /\ last.h.store = last.before

\* a DELETE with a matching If-Match has removed the item
C3_Witness ==
    /\ last.h.command = "DELETE"
    /\ ~IfMatchAbsent
    /\ last.h.status = <<NO_CONTENT>>
    /\ has_item(CalendarBefore, TargetName)
    /\ ~has_item(store[TargetAddress], TargetName)

\* C4 as stated: once an item was deleted with 204, and until a PUT of it is
\* answered 201, every GET and HEAD of its path is answered 410, no body.
C4_GoneAfterDelete ==
    (last.h.command \in Reads /\ TargetName \in gone)
    => (last.h.status = <<GONE>> /\ last.h.wfile = <<>>)

\* C4 amended: the same of every GET and HEAD that passes the gate.
C4_GoneAfterDeleteWhenAuthorized ==
    (last.h.command \in Reads /\ TargetName \in gone /\ Invoked("do_HEAD"))
    => /\ last.h.status = <<GONE>>
       /\ last.h.wfile = <<>>
       /\ "ETag" \notin last.h.sent

\* a GET of a deleted item was answered 410
C4_Witness ==
    /\ last.h.command = "GET"
    /\ TargetName \in gone
    /\ Invoked("do_HEAD")
    /\ last.h.status = <<GONE>>

\* C5: with access control on and a calendar that has an owner, a request to
\* a gated verb without Authorization header, or with credentials has_right
\* refuses, gets 401 and WWW-Authenticate and nothing else: the wrapped
\* handler does not run, no body is written, the storage is unchanged.
C5_Denied ==
    (/\ last.h.command \in GatedVerbs
     /\ acl
     /\ owner[TargetAddress] # <<>>
     /\ (NoCredentials \/ RejectedCredentials))
    => /\ last.h.status = <<UNAUTHORIZED>>
       /\ last.h.sent = {"WWW-Authenticate"}
       /\ HandlerOf(last.h.command) \notin last.h.ran
       /\ last.h.wfile = <<>>
       /\ last.h.store = last.before

\* a PUT with a wrong password was answered 401
C5_Witness ==
    /\ last.h.command = "PUT"
    /\ acl
    /\ RejectedCredentials
    /\ last.h.rfile # <<>>
    /\ last.h.status = <<UNAUTHORIZED>>

\* C6: without access control, or with access control on a calendar that has
\* no owner in personal-calendar mode, a request without credentials reaches
\* its handler: the gate neither answers 401 nor fails.
C6_OpenAccess ==
    (/\ last.h.command # ""
     /\ NoCredentials
     /\ (~acl \/ (owner[TargetAddress] = <<>> /\ personal)))
    => /\ HandlerOf(last.h.command) \in last.h.ran
       /\ last.h.status # <<UNAUTHORIZED>>

\* C7: the Calendar Address of a request path is the address of its
\* normalized form, and none of its segments is "..".
C7_PathNormalized ==
    resolved.done
    => /\ resolved.calendar.path = calendar(normpath(resolved.path)).path
       /\ \A i \in DOMAIN resolved.calendar.path : resolved.calendar.path[i] # ".."

\* C8: a GET and a HEAD of the same path with the same headers, nothing
\* written in between, send the same status and the same headers; the GET
\* writes as many bytes as its Content-Length says, and none without a 200.
C8_GetLikeHead ==
    (/\ last.h.command \in Reads /\ prev.h.command \in Reads
     /\ last.h.command # prev.h.command
     /\ last.before = prev.h.store)
    => LET get == IF last.h.command = "GET" THEN last.h ELSE prev.h
           head == IF last.h.command = "GET" THEN prev.h ELSE last.h
       IN  /\ get.status = head.status
           /\ get.sent = head.sent
           /\ get.out = head.out
           /\ (get.status = <<OK>> => Len(get.wfile) = get.out["Content-Length"])
           /\ (get.status # <<OK>> => get.wfile = <<>>)

\* a GET that followed a HEAD wrote the body of a 200
C8_Witness ==
    /\ last.h.command = "GET"
    /\ prev.h.command = "HEAD"
    /\ last.h.status = <<OK>>
    /\ Len(last.h.wfile) > 1

\* C9: a GET or HEAD that passed the gate is answered 410 without ETag and
\* body when its path names an item the calendar does not have, 200 with the
\* item's etag when it has it, and 200 with the calendar's etag when the path
\* names no item.
C9_ReadStatus ==
    (last.h.command \in Reads /\ Invoked("do_HEAD"))
    => IF TargetName # "" /\ ~has_item(CalendarBefore, TargetName)
       THEN /\ last.h.status = <<GONE>>
            /\ "ETag" \notin last.h.sent
            /\ last.h.wfile = <<>>
       ELSE /\ last.h.status = <<OK>>
            /\ "ETag" \in last.h.sent
            /\ last.h.out["ETag"] =
                   IF TargetName # "" THEN item_etag(CalendarBefore, TargetName)
                   ELSE calendar_etag(CalendarBefore)

\* a HEAD of an item the calendar has was answered with the item's etag
C9_Witness ==
    /\ last.h.command = "HEAD"
    /\ TargetName # ""
    /\ has_item(CalendarBefore, TargetName)
    /\ last.h.status = <<OK>>
    /\ last.h.out["ETag"] = item_etag(CalendarBefore, TargetName)

\* two reads of one resource, nothing written in between, send the same ETag
SameEtagOnReread ==
    (/\ last.h.command \in Reads /\ prev.h.command \in Reads
     /\ last.before = prev.h.store
     /\ last.h.status = <<OK>>)
    => (prev.h.status = <<OK>> /\ last.h.out["ETag"] = prev.h.out["ETag"])

MalformedCredentials ==
    /\ "Authorization" \in DOMAIN last.h.headers
    /\ LET challenge == decode(last.h.headers, last.h.headers["Authorization"], FALSE)
       IN  challenge.fault = "" /\ Len(split(challenge.text, 58)) # 2

\* C11: when the gate has to check rights and the Authorization header is
\* malformed, the request is handled as one without credentials: has_right
\* refuses it, it is answered 401 with WWW-Authenticate, and no exception
\* leaves the gate.
C11_MalformedAsNoCredentials ==
    (/\ last.h.command \in GatedVerbs
     /\ acl
     /\ owner[TargetAddress] # <<>>
     /\ MalformedCredentials)
    => /\ last.h.fault = ""
       /\ last.h.status = <<UNAUTHORIZED>>
       /\ last.h.sent = {"WWW-Authenticate"}

\* the request carries a user and a password that has_right accepts
AcceptedCredentials ==
    /\ "Authorization" \in DOMAIN last.h.headers
    /\ LET challenge == decode(last.h.headers, last.h.headers["Authorization"], FALSE)
           fields == split(challenge.text, 58)
       IN  /\ challenge.fault = ""
           /\ Len(fields) = 2
           /\ has_right(owner[TargetAddress], fields[1], fields[2])

\* C12: whatever the access control, the owner and the credentials, OPTIONS
\* is answered 200 with Allow and DAV, and PROPFIND 207 with the body of the
\* XML collaborator, neither ever 401; REPORT is answered 207 only when the
\* gate lets the request through.
C12_UngatedVerbs ==
    /\ last.h.command = "OPTIONS"
       => /\ last.h.status = <<OK>>
          /\ last.h.sent = {"Allow", "DAV"}
          /\ last.h.ended
          /\ last.h.fault = ""
    /\ last.h.command = "PROPFIND"
       => /\ last.h.status = <<MULTI_STATUS>>
          /\ last.h.wfile = propfind_answer
          /\ last.h.out["Content-Length"] = Len(propfind_answer)
          /\ "WWW-Authenticate" \notin last.h.sent
          /\ last.h.fault = ""
    /\ (last.h.command = "REPORT" /\ last.h.status = <<MULTI_STATUS>>)
       => /\ Invoked("do_REPORT")
          /\ (~acl \/ AcceptedCredentials)
    /\ (last.h.command = "REPORT" /\ acl /\ owner[TargetAddress] # <<>>
        /\ (NoCredentials \/ RejectedCredentials))
       => last.h.status = <<UNAUTHORIZED>>

\* a PROPFIND without credentials was answered 207 although access control
\* is on and the calendar has an owner
C12_Witness ==
    /\ last.h.command = "PROPFIND"
    /\ acl
    /\ owner[TargetAddress] # <<>>
    /\ NoCredentials
    /\ last.h.status = <<MULTI_STATUS>>
    /\ last.h.wfile = propfind_answer

\* the decoding C13 describes: the first candidate that can be used, a
\* candidate that fails on the bytes or is no charset being skipped
RECURSIVE FirstUsable(_, _)
FirstUsable(bytes, candidates) ==
    IF candidates = <<>> THEN [found |-> FALSE, text |-> <<>>]
    ELSE LET r == bytes_decode(bytes, Head(candidates))
         IN  IF r.result = "ok" THEN [found |-> TRUE, text |-> r.text]
             ELSE FirstUsable(bytes, Tail(candidates))

\* the last request is a PUT of an item, with a body, that passed the gate
\* and the precondition of lines 318-319
PutBodyDecoded ==
    /\ last.h.command = "PUT"
    /\ Invoked("do_PUT")
    /\ TargetName # ""
    /\ last.h.rfile # <<>>
    /\ put_allowed([last.h EXCEPT !.store = last.before])

\* C13: the body is decoded by the first usable candidate of the list
\* (declared charset, configured default, utf-8, iso8859-1), an unusable
\* candidate being skipped: the item stored is that text, and bytes valid in
\* iso8859-1 only, with no declared charset, are stored as their iso8859-1
\* decoding.
C13_FirstUsableCharset ==
    PutBodyDecoded
    => /\ last.h.fault = ""
       /\ has_item(CalendarAfter, TargetName)
       /\ CalendarAfter.items[TargetName]
              = FirstUsable(last.h.rfile, charsets(last.h.headers)).text
       /\ ("Content-Type" \notin DOMAIN last.h.headers
           /\ ~utf8_decode(last.h.rfile).ok)
          => CalendarAfter.items[TargetName]
                 = bytes_decode(last.h.rfile, "iso8859-1").text

\* C14: a PUT that passed the gate and the precondition, the body of which
\* cannot be turned into text (no body at all, or no candidate decodes it),
\* is answered one client-error status, the storage is unchanged and no
\* exception leaves the handler.
C14_UndecodableBodyRejected ==
    (/\ last.h.command = "PUT"
     /\ Invoked("do_PUT")
     /\ TargetName # ""
     /\ put_allowed([last.h EXCEPT !.store = last.before])
     /\ \/ last.h.rfile = <<>>
        \/ ~FirstUsable(last.h.rfile, charsets(last.h.headers)).found)
    => /\ last.h.fault = ""
       /\ Len(last.h.status) = 1
       /\ last.h.status[1] \in 400..499
       /\ last.h.store = last.before

\* the request paths "" and "/"
EmptyPaths == {<<"">>, <<"", "">>}

\* C16: an empty request path resolves to no calendar, so that the gate
\* calls the handler without checking rights, access control or not.
C16_EmptyPathNoCalendar ==
    (resolved.done /\ resolved.path \in EmptyPaths)
    => /\ resolved.calendar.none
       /\ resolved.unchecked

\* C17: a request path and the path of an item under it resolve to the same
\* Calendar Address, of two segments at most.
C17_ItemSameAddress ==
    resolved.done
    => /\ resolved.with_item.path = resolved.calendar.path
       /\ Len(resolved.calendar.path) <= 2

----------------------------------------------------------------------------
(* Properties of the handlers that run concurrently *)

\* handler p is a PUT that has passed line 325: it has written
Written(p) == running[p].h.command = "PUT" /\ running[p].wrote > 0

\* handler p is a PUT with If-Match: E that looked the item up with etag E
\* and passed the test of lines 318-319
PassedOn(p, E) ==
    /\ running[p].h.command = "PUT"
    /\ running[p].pc \in {"325", "326", "done"}
    /\ running[p].item.found
    /\ running[p].item.etag = E
    /\ HeaderGet(running[p].h.headers, "If-Match", <<>>) = E

\* two PUTs with If-Match: E on the item of etag E have both passed the
\* test before either of them wrote
Raced(p, q) ==
    /\ p # q
    /\ running[p].h.path = running[q].h.path
    /\ PassedOn(p, Etag(RaceText))
    /\ PassedOn(q, Etag(RaceText))
    /\ Written(p) => running[q].looked < running[p].wrote
    /\ Written(q) => running[p].looked < running[q].wrote

\* C15: the test and the write of do_PUT are not one atomic step. Two PUTs
\* that have both passed the test on E before either wrote both go on: none
\* is answered 412, each write replaces the item with its own text whatever
\* the item has become (the write that comes second overwrites the first),
\* and each handler that ends normally has answered 201.
C15_LostUpdate ==
    \A p \in Handlers, q \in Handlers :
        Raced(p, q)
        => /\ running[p].h.status # <<PRECONDITION_FAILED>>
           /\ Written(p) => running[p].stored = running[p].text
           /\ (running[p].pc = "done" /\ running[p].h.fault = "")
              => running[p].h.status = <<CREATED>>

\* both PUTs were answered 201 and the text of the first writer is lost
C15_Witness ==
    \E p \in Handlers, q \in Handlers :
        /\ Raced(p, q)
        /\ running[p].pc = "done" /\ running[p].h.status = <<CREATED>>
        /\ running[q].pc = "done" /\ running[q].h.status = <<CREATED>>
        /\ running[p].text # running[q].text
        /\ running[q].wrote = running[p].wrote + 1
        /\ store[calendar(ItemPath).path].items[ItemSegment] = running[q].text

\* C19: a PUT that has passed its precondition and written the item ends
\* with 201 and the ETag of the content it wrote, whatever DELETE and PUT
\* run concurrently: the item it looks up again is always there.
C19_PutEtagOfOwnWrite ==
    \A p \in Handlers :
        (Written(p) /\ running[p].pc = "done")
        => /\ running[p].h.fault = ""
           /\ running[p].h.status = <<CREATED>>
           /\ "ETag" \in running[p].h.sent
           /\ running[p].h.out["ETag"] = Etag(running[p].text)

\* the text of the body of a 200 answer, as the client decodes it
BodyText(h) == utf8_decode(h.answer).text

\* C20: the ETag of a 200 answer of GET or HEAD is the etag of the content
\* serialized into its body, whatever PUT and DELETE run concurrently.
C20_EtagOfBody ==
    \A p \in Handlers :
        (/\ running[p].h.command \in Reads
         /\ running[p].pc = "done"
         /\ running[p].h.status = <<OK>>)
        => /\ running[p].h.out["Content-Length"] = Len(running[p].h.answer)
           /\ running[p].h.out["ETag"] =
                  IF name_from_path(running[p].h.path) # ""
                  THEN Etag(Front(BodyText(running[p].h)))
                  ELSE Etag(BodyText(running[p].h))

====
